---- MODULE Spec2Model ----
(***************************************************************************)
(* jscc: lowering of a parsed JavaScript module to an LLVM module          *)
(* (crates/codegen/src/lib.rs) and the driver that runs the pipeline       *)
(* (crates/cli/src/main.rs).                                               *)
(*                                                                         *)
(* The lowering is a recursive descent over the syntax tree.  The model    *)
(* runs it as a machine with an explicit call stack: one action per code   *)
(* segment between two recursive calls or returns.  The syntax tree is the *)
(* input; each node is drawn from the node kinds of boa_ast at the moment  *)
(* the code matches on it.                                                 *)
(***************************************************************************)
EXTENDS Integers, Sequences, FiniteSets, TLC

\* ------------------------------------------------------------------ bounds
\* number of syntax-tree nodes a source may have
MaxNodes == 5

\* ------------------------------------------------------------- the inputs
\* identifiers a source can use as a callee
Names == {"puts", "main", "str"}
\* string literals, as UTF-16 code units: '', 'H', '\0' (a NUL) and '\uD800'
\* (a lone high surrogate)
StrLits == {<< >>, << 72 >>, << 0 >>, << 55296 >>}
\* the numbers of arguments a call is given, and of statements a block holds
ArgCounts == {0, 1, 2}
ItemCounts == {0, 1, 2}
\* i32 values of integer literals (boa_ast Literal::Int holds an i32)
IntLits == {-1, 7}
\* f64 values of number literals, each named by an integer
NumLits == {3}

None == [none |-> TRUE]
Some(v) == [some |-> v]

UnsupportedItems == {"ImportDeclaration", "ExportDeclaration", "Declaration"}
UnsupportedStatements ==
    {"Var", "Empty", "If", "DoWhileLoop", "ForLoop", "ForInLoop", "ForOfLoop",
     "Switch", "Continue", "Break", "Return", "Labelled", "Throw", "Try", "With"}
UnsupportedLiterals == {"BigInt", "Null", "Undefined"}
UnsupportedExpressions ==
    {"This", "Identifier", "RegExpLiteral", "ArrayLiteral", "ObjectLiteral",
     "Spread", "FunctionExpression", "ArrowFunction", "AsyncArrowFunction",
     "GeneratorExpression", "AsyncFunctionExpression",
     "AsyncGeneratorExpression", "ClassExpression", "TemplateLiteral",
     "PropertyAccess", "New", "SuperCall", "ImportCall", "Optional",
     "TaggedTemplate", "NewTarget", "ImportMeta", "Assign", "Unary", "Update",
     "Binary", "BinaryInPrivate", "Conditional", "Await", "Yield",
     "Parenthesized"}
\* callee expressions of a call that are not a plain identifier
NonIdentifierCallees == {"PropertyAccess", "Parenthesized"}

\* -------------------------------------------------- strings (lib.rs 58-65)
IsHigh(u) == u >= 55296 /\ u <= 56319
IsLow(u) == u >= 56320 /\ u <= 57343

\* the UTF-8 bytes of a UTF-16 text whose surrogates are paired
RECURSIVE Utf8Bytes(_)
Utf8Bytes(s) ==
    IF s = << >> THEN << >>
    ELSE LET u == Head(s) IN
         IF IsHigh(u) /\ Len(s) >= 2
         THEN LET c == (u - 55296) * 1024 + (s[2] - 56320) + 65536
              IN  << 240 + (c \div 262144), 128 + ((c \div 4096) % 64),
                     128 + ((c \div 64) % 64), 128 + (c % 64) >>
                  \o Utf8Bytes(Tail(Tail(s)))
         ELSE (IF u < 128 THEN << u >>
               ELSE IF u < 2048 THEN << 192 + (u \div 64), 128 + (u % 64) >>
               ELSE << 224 + (u \div 4096), 128 + ((u \div 64) % 64),
                       128 + (u % 64) >>)
              \o Utf8Bytes(Tail(s))

RECURSIVE SurrogatesPaired(_)
SurrogatesPaired(s) ==
    IF s = << >> THEN TRUE
    ELSE IF IsHigh(Head(s))
         THEN Len(s) >= 2 /\ IsLow(s[2]) /\ SurrogatesPaired(Tail(Tail(s)))
         ELSE ~IsLow(Head(s)) /\ SurrogatesPaired(Tail(s))

\* JSInternedStrRef::utf8: None when the UTF-16 text has an unpaired surrogate
Utf8(s) == IF SurrogatesPaired(s) THEN Some(Utf8Bytes(s)) ELSE None

\* CString::new: an error when the bytes hold an interior NUL, else the bytes
\* followed by the terminating NUL
CStringNew(bytes) ==
    IF \E i \in DOMAIN bytes : bytes[i] = 0 THEN None ELSE Some(Append(bytes, 0))

\* ------------------------------------------------- integers (lib.rs 125-134)
\* An integer of w bits is a sequence of w/16 limbs of 16 bits, most
\* significant first.  I32Limbs is the two's complement pattern of an i32.
I32Limbs(n) ==
    IF n >= 0 THEN << n \div 65536, n % 65536 >>
    ELSE LET m == -(n + 1) IN << 65535 - (m \div 65536), 65535 - (m % 65536) >>

\* `*n as u64` on an i32: sign extension to 64 bits
AsU64(n) ==
    LET ext == IF n < 0 THEN 65535 ELSE 0 IN << ext, ext >> \o I32Limbs(n)

\* LLVMConstInt(ty, N, 0): the low bits of N that the type holds
ConstInt(ty, N) ==
    [ty |-> ty, kind |-> "const",
     x |-> IF ty = "i1" THEN << N[Len(N)] % 2 >> ELSE SubSeq(N, Len(N) - 1, Len(N))]

\* LLVMConstReal(double, n)
ConstReal(n) == [ty |-> "double", kind |-> "const", x |-> << n >>]

\* ------------------------------------- the module's symbol table (LLVM)
\* A symbol is a base name and the number LLVM appended to make it unique
\* (0: nothing appended).  Functions and globals share one table.
Plain(base) == [base |-> base, n |-> 0]

Taken(fs, gs) == {fs[i].name : i \in DOMAIN fs} \cup {gs[i].name : i \in DOMAIN gs}

\* the name a new global value gets, and the table's counter afterwards
UniqueName(base, fs, gs, lu) ==
    IF Plain(base) \in Taken(fs, gs)
    THEN [name |-> [base |-> base, n |-> lu + 1], lu |-> lu + 1]
    ELSE [name |-> Plain(base), lu |-> lu]

\* LLVMGetNamedFunction: the function of that name, 0 (null) when the name is
\* unbound or bound to a value that is not a function
LLVMGetNamedFunction(fs, name) ==
    IF \E i \in DOMAIN fs : fs[i].name = Plain(name)
    THEN CHOOSE i \in DOMAIN fs : fs[i].name = Plain(name)
    ELSE 0

\* ------------------------------------------------------------ basic blocks
\* the instructions that end a block: LLVMBuildBr, LLVMBuildCondBr,
\* LLVMBuildRetVoid
IsTerminator(inst) == inst.op \in {"br", "condbr", "ret"}

\* LLVMAppendBasicBlock
AppendBasicBlock(bs, label) == Append(bs, [label |-> label, insts |-> << >>])

\* the builder appends an instruction at the end of the block it stands at
Emit(bs, b, inst) == [bs EXCEPT ![b].insts = Append(@, inst)]

\* ------------------------------------------------ the command line (cli)
InputFile == [stem |-> "a", ext |-> "js"]
OutputFileArgs == {None, [stem |-> "b", ext |-> "bin"]}
LinkerArgs == {None, Some("cc")}
\* an option main has not read yet
Unread == [unread |-> TRUE]

\* PathBuf::set_extension
SetExtension(p, e) == [p EXCEPT !.ext = e]

\* ------------------------------------------------------------------ state
VARIABLES
    pc,          \* where main stands: "parse", "lower", "ret", "verify",
                 \* "target", "emit", "link"; or how it ended: "Ok", "Err", "panic"
    stack,       \* the calls of compile_statement / compile_expression that
                 \* are pending or suspended, innermost first
    budget,      \* syntax-tree nodes the source may still contain
    args,        \* the options of the command line main has read so far
    funcs,       \* the module's functions, in order of declaration
    globals,     \* the module's global variables
    lastUnique,  \* the counter of the module's symbol table
    blocks,      \* the basic blocks of the entry function, in order
    ip,          \* the block the builder is positioned at the end of
    src,         \* history: the source as far as it is lowered, as the kinds
                 \* of its nodes in the order the lowering matched on them
                 \* ("Item" for a top-level item)
    called,      \* history: for each call emitted, the callee's name in the
                 \* source and the function the call targets
    last,        \* history: the node matched, or the call returned from, by
                 \* the latest step
    released,    \* the backend handles disposed so far, in order
    tm,          \* the target machine: "none", "live", "disposed"
    verified,    \* the verifier's verdict: "no" (not run), "ok", "failed"
    object,      \* the path the object file was written to, or None
    linked       \* the linker invocation, or None

mod == << funcs, globals, lastUnique, blocks, ip >>
drv == << released, tm, verified, object, linked >>
vars == << pc, stack, budget, args, funcs, globals, lastUnique, blocks, ip,
           src, called, last, released, tm, verified, object, linked >>

\* LLVMContext::new: the entry function `main` of type void (), its block
\* `entry`, and the builder positioned at the end of it
RootFunction == 1
EntryBlock == 1

Init ==
    /\ pc = "parse"
    /\ stack = << >>
    /\ budget = MaxNodes
    /\ args = [output_file |-> Unread, linker |-> Unread]
    /\ funcs = << [name |-> Plain("main"), params |-> << >>, ret |-> "void",
                   linkage |-> "external"] >>
    /\ globals = << >>
    /\ lastUnique = 0
    /\ blocks = << [label |-> "entry", insts |-> << >>] >>
    /\ ip = EntryBlock
    /\ src = << >>
    /\ called = {}
    /\ last = [op |-> "new"]
    /\ released = << >>
    /\ tm = "none"
    /\ verified = "no"
    /\ object = None
    /\ linked = None

\* impl Drop for LLVMContext
DropLLVMContext == << "builder", "module", "context" >>

\* a panic (todo!(), panic!(), a failed unwrap or expect) unwinds main:
\* nothing more of main runs and the code generator is dropped
Panic(ev) ==
    /\ pc' = "panic"
    /\ last' = ev
    /\ released' = released \o DropLLVMContext
    /\ UNCHANGED << stack, budget, args, mod, called, src, tm, verified, object, linked >>

\* a callee returns v: the suspended caller, now innermost, receives it
Deliver(st, v) ==
    IF st = << >> THEN st
    ELSE LET f == Head(st) IN
         IF f.k = "call" THEN << [f EXCEPT !.args = Append(@, v)] >> \o Tail(st)
         ELSE IF f.k = "whileCond" THEN << [f EXCEPT !.val = v] >> \o Tail(st)
         ELSE st

\* ------------------------------------------------------ the syntax tree
\* the nodes compile_statement can be handed, for a source with n nodes left
StatementNodes(n) ==
    {[kind |-> "Block", nitems |-> k] : k \in ItemCounts \cap 0..n}
    \cup {[kind |-> k] : k \in {"Expression", "WhileLoop"} \cup UnsupportedStatements}

\* the nodes compile_expression can be handed
ExpressionNodes(n) ==
    {[kind |-> "Literal", lit |-> "String", str |-> s] : s \in StrLits}
    \cup {[kind |-> "Literal", lit |-> "Num", num |-> x] : x \in NumLits}
    \cup {[kind |-> "Literal", lit |-> "Int", int |-> x] : x \in IntLits}
    \cup {[kind |-> "Literal", lit |-> "Bool", bool |-> x] : x \in BOOLEAN}
    \cup {[kind |-> "Literal", lit |-> l] : l \in UnsupportedLiterals}
    \cup {[kind |-> "Call", callee |-> c, nargs |-> k] :
             c \in Names \cup NonIdentifierCallees, k \in ArgCounts \cap 0..n}
    \cup {[kind |-> k] : k \in UnsupportedExpressions}

\* ------------------------------------------- the match arms (lib.rs)
\* compile_module_item, lines 96-105
ItemArm(item) == IF item = "Statement" THEN "statement" ELSE "todo"

\* a variant of StatementArm: a do-while loop is taken for a while loop
StatementArm_doWhile(kind) ==
    CASE kind = "Block" -> "block"
      [] kind = "Expression" -> "expression"
      [] kind \in {"WhileLoop", "DoWhileLoop"} -> "while"
      [] OTHER -> "todo"

\* compile_statement, lines 231-294
StatementArm(kind) ==
    CASE kind = "Block" -> "block"
      [] kind = "Expression" -> "expression"
      [] kind = "WhileLoop" -> "while"
      [] OTHER -> "todo"

\* compile_expression, lines 113-222
ExpressionArm(kind) ==
    CASE kind = "Literal" -> "literal"
      [] kind = "Call" -> "call"
      [] OTHER -> "todo"

\* a variant of CalleeIdentifier: any callee expression is taken for a name
CalleeIdentifier_any(callee) == Some(callee)

\* the callee of a call, lines 154-159: the identifier's name, or a panic
CalleeIdentifier(callee) == IF callee \in Names THEN Some(callee) ELSE None

\* ------------------------------------------------------------- literals
U64(n) == << 0, 0, n \div 65536, n % 65536 >>

\* lines 122-135: the constant of a number, integer or boolean literal
LiteralValue(node) ==
    CASE node.lit = "Num" -> ConstReal(node.num)
      [] node.lit = "Int" -> ConstInt("i32", AsU64(node.int))
      [] node.lit = "Bool" -> ConstInt("i1", IF node.bool THEN U64(1) ELSE U64(0))

\* a variant of BuildBr: the branch is not emitted
BuildBr_missing(bs, b, dest) == bs

\* a builder instruction
BuildBr(bs, b, dest) == Emit(bs, b, [op |-> "br", dest |-> dest])

BuildCondBr(bs, b, c, t, e) ==
    Emit(bs, b, [op |-> "condbr", cond |-> c, then |-> t, else |-> e])

BuildRetVoid(bs, b) == Emit(bs, b, [op |-> "ret"])

\* ------------------------------------------------------------- while loop
\* a variant of WhileBlockOrder: the body block is appended first
WhileBlockOrder_bodyFirst == << "body", "condition", "end" >>

\* lines 252-257: the labels of the blocks a loop appends, in order
WhileBlockOrder == << "condition", "body", "end" >>

\* a variant of BodyStart: the builder is left in the condition block
BodyStart_atCondition(f) == f.cond

\* lines 269-273: the block the builder is moved to for the body
BodyStart(f) == f.body

\* a variant of BackEdgeTarget: the branch after the body re-enters the body
BackEdgeTarget_toBody(f) == f.body

\* line 277: the block the branch after the body goes to
BackEdgeTarget(f) == f.cond

\* a variant of WhileExit: the builder stays in the block the body ended in
WhileExit_stay(f) == f.body

\* line 279: the block the builder is left at
WhileExit(f) == f.end

\* a variant of CallFunctionType: the type of a callee that is present is
\* read from its declaration
CallFunctionType_declared(fs, h, argTypes) ==
    IF h = 0 THEN [params |-> argTypes, ret |-> "i32"]
    ELSE [params |-> fs[h].params, ret |-> fs[h].ret]

\* ------------------------------------------------------------------ calls
\* lines 176-181: the function type of a call, built from the types of its
\* arguments (fs and h, the module's functions and the callee found, are
\* not consulted)
CallFunctionType(fs, h, argTypes) == [params |-> argTypes, ret |-> "i32"]

\* a variant of ResolveCallee: a callee that is present is given the type of
\* the current call
ResolveCallee_retyped(fs, gs, lu, name, h, fnty) ==
    IF h = 0
    THEN LET un == UniqueName(name, fs, gs, lu)
         IN  [funcs |-> Append(fs, [name |-> un.name, params |-> fnty.params,
                                    ret |-> fnty.ret, linkage |-> "external"]),
              lu |-> un.lu, callee |-> Len(fs) + 1]
    ELSE [funcs |-> [fs EXCEPT ![h].params = fnty.params, ![h].ret = fnty.ret],
          lu |-> lu, callee |-> h]

\* lines 183-192: the callee of a call and the functions of the module
\* afterwards; h is what LLVMGetNamedFunction returned
ResolveCallee(fs, gs, lu, name, h, fnty) ==
    IF h = 0
    THEN LET un == UniqueName(name, fs, gs, lu)
         IN  [funcs |-> Append(fs, [name |-> un.name, params |-> fnty.params,
                                    ret |-> fnty.ret, linkage |-> "external"]),
              lu |-> un.lu, callee |-> Len(fs) + 1]
    ELSE [funcs |-> fs, lu |-> lu, callee |-> h]

\* ---------------------------------------------------------------- actions
\* main.rs 40: parser.parse_module(..).unwrap()
ParseModule ==
    /\ pc = "parse"
    /\ \E ok \in BOOLEAN :
         IF ok
         THEN /\ pc' = "lower"
              /\ last' = [op |-> "parse"]
              /\ UNCHANGED << stack, budget, args, mod, called, src, drv >>
         ELSE Panic([op |-> "parse", panic |-> "unwrap"])

\* main.rs 42-43 and lib.rs 91-105: the loop takes the next top-level item
\* and compile_module_item matches on it
CompileModuleItem ==
    /\ pc = "lower" /\ stack = << >> /\ budget >= 1
    /\ \E item \in {"Statement"} \cup UnsupportedItems :
         LET ev == [op |-> "compile_module_item", node |-> [kind |-> item]] IN
         IF ItemArm(item) = "statement"
         THEN /\ stack' = << [k |-> "stmt"] >>
              /\ budget' = budget - 1
              /\ last' = ev
              /\ UNCHANGED << pc, args, mod, called, drv >>
              /\ src' = Append(src, "Item")
         ELSE Panic(ev @@ [panic |-> "todo"])

\* main.rs 42-44: no item is left
ItemsDone ==
    /\ pc = "lower" /\ stack = << >>
    /\ pc' = "ret"
    /\ last' = [op |-> "items_done"]
    /\ UNCHANGED << stack, budget, args, mod, called, src, drv >>

\* lib.rs 225-295: compile_statement matches on its statement.  The Block
\* arm enters its loop, the Expression arm calls compile_expression in tail
\* position, the WhileLoop arm runs lines 252-264 up to the call that lowers
\* the condition.
CompileStatement ==
    /\ pc = "lower" /\ stack # << >> /\ Head(stack).k = "stmt"
    /\ \E node \in StatementNodes(budget) :
         LET arm == StatementArm(node.kind)
             ev == [op |-> "compile_statement", node |-> node]
         IN
         CASE arm = "block" ->
                /\ stack' = << [k |-> "block", left |-> node.nitems,
                                n |-> node.nitems, order |-> << >>,
                                entry |-> [nb |-> Len(blocks), ip |-> ip,
                                           at |-> Len(src) + 1]] >> \o Tail(stack)
                /\ budget' = budget - node.nitems
                /\ last' = ev
                /\ UNCHANGED << pc, args, mod, called, drv >>
                /\ src' = Append(src, node.kind)
           [] arm = "expression" ->
                /\ budget >= 1
                /\ stack' = << [k |-> "expr"] >> \o Tail(stack)
                /\ budget' = budget - 1
                /\ last' = ev
                /\ UNCHANGED << pc, args, mod, called, drv >>
                /\ src' = Append(src, node.kind)
           [] arm = "while" ->
                /\ budget >= 2
                /\ LET nb == Len(blocks)
                       at(l) == nb + CHOOSE i \in 1..3 : WhileBlockOrder[i] = l
                       bs1 == AppendBasicBlock(AppendBasicBlock(AppendBasicBlock(
                                  blocks, WhileBlockOrder[1]), WhileBlockOrder[2]),
                                  WhileBlockOrder[3])
                       f == [k |-> "whileCond", cond |-> at("condition"),
                             body |-> at("body"), end |-> at("end"),
                             pre |-> ip, nb |-> nb, at |-> Len(src) + 1,
                             val |-> None]
                   IN  /\ blocks' = BuildBr(bs1, ip, f.cond)
                       /\ ip' = f.cond
                       /\ stack' = << [k |-> "expr"], f >> \o Tail(stack)
                /\ budget' = budget - 2
                /\ last' = ev
                /\ UNCHANGED << pc, args, funcs, globals, lastUnique, called, drv >>
                /\ src' = Append(src, node.kind)
           [] OTHER -> Panic(ev @@ [panic |-> "todo"])

\* a variant of NextItem: the items are taken from the last to the first
NextItem_reversed(f) == f.left

\* lib.rs 233: `for statement_list_item in block.statement_list().iter()`,
\* the position in the source of the item the loop takes next, f being the
\* pending block of f.n items of which f.left are left
NextItem(f) == f.n - f.left + 1

\* lib.rs 233-240: the Block loop takes its next item
BlockItem ==
    /\ pc = "lower" /\ stack # << >> /\ Head(stack).k = "block"
    /\ Head(stack).left > 0
    /\ \E item \in {"Statement", "Declaration"} :
         LET ev == [op |-> "block_item", node |-> [kind |-> item]] IN
         IF ItemArm(item) = "statement"
         THEN /\ stack' = << [k |-> "stmt"],
                             [Head(stack) EXCEPT !.left = @ - 1,
                                                 !.order = Append(@, NextItem(Head(stack)))] >>
                          \o Tail(stack)
              /\ last' = ev
              /\ UNCHANGED << pc, budget, args, mod, called, src, drv >>
         ELSE Panic(ev @@ [panic |-> "todo"])

\* lib.rs 242: the Block arm returns None
BlockReturn ==
    /\ pc = "lower" /\ stack # << >> /\ Head(stack).k = "block"
    /\ Head(stack).left = 0
    /\ stack' = Deliver(Tail(stack), None)
    /\ last' = [op |-> "return", fn |-> "compile_statement",
                node |-> [kind |-> "Block", nitems |-> Head(stack).n],
                value |-> None, order |-> Head(stack).order,
                entry |-> Head(stack).entry]
    /\ UNCHANGED << pc, budget, args, mod, called, src, drv >>

\* lib.rs 265-275: the condition's value is unwrapped, the conditional
\* branch closes the condition block, the builder moves to the body and the
\* body is lowered
WhileAfterCondition ==
    /\ pc = "lower" /\ stack # << >> /\ Head(stack).k = "whileCond"
    /\ LET f == Head(stack) IN
       IF f.val = None
       THEN Panic([op |-> "while_condition", panic |-> "unwrap"])
       ELSE /\ blocks' = BuildCondBr(blocks, ip, f.val, f.body, f.end)
            /\ ip' = BodyStart(f)
            /\ stack' = << [k |-> "stmt"],
                           [k |-> "whileBody", cond |-> f.cond, body |-> f.body,
                            end |-> f.end, pre |-> f.pre, nb |-> f.nb,
                            at |-> f.at] >>
                         \o Tail(stack)
            /\ last' = [op |-> "while_condition", loop |-> f]
            /\ UNCHANGED << pc, budget, args, funcs, globals, lastUnique, called, src, drv >>

\* lib.rs 277-281: the branch back to the condition, the builder moves to
\* the end block, the WhileLoop arm returns None
WhileAfterBody ==
    /\ pc = "lower" /\ stack # << >> /\ Head(stack).k = "whileBody"
    /\ LET f == Head(stack) IN
       /\ blocks' = BuildBr(blocks, ip, BackEdgeTarget(f))
       /\ ip' = WhileExit(f)
       /\ stack' = Deliver(Tail(stack), None)
       /\ last' = [op |-> "return", fn |-> "compile_statement",
                   node |-> [kind |-> "WhileLoop"], loop |-> f, from |-> ip]
    /\ UNCHANGED << pc, budget, args, funcs, globals, lastUnique, called, src, drv >>

\* lib.rs 116-138: a literal; 58-65: create_string_literal
LowerLiteral(node, ev) ==
    IF node.lit \in UnsupportedLiterals THEN Panic(ev @@ [panic |-> "todo"])
    ELSE IF node.lit = "String"
    THEN LET u == Utf8(node.str) IN
         IF u = None THEN Panic(ev @@ [panic |-> "unwrap"])
         ELSE LET c == CStringNew(u.some) IN
              IF c = None THEN Panic(ev @@ [panic |-> "unwrap"])
              ELSE LET un == UniqueName("str", funcs, globals, lastUnique)
                       v == [ty |-> "ptr", kind |-> "global", x |-> << Len(globals) + 1 >>]
                   IN  /\ globals' = Append(globals, [name |-> un.name, bytes |-> c.some])
                       /\ lastUnique' = un.lu
                       /\ stack' = Deliver(Tail(stack), v)
                       /\ last' = ev @@ [value |-> v]
                       /\ UNCHANGED << pc, budget, args, funcs, blocks, ip, called, drv >>
                       /\ src' = Append(src, node.kind)
    ELSE LET v == LiteralValue(node)
         IN  /\ stack' = Deliver(Tail(stack), v)
             /\ last' = ev @@ [value |-> v]
             /\ UNCHANGED << pc, budget, args, mod, called, drv >>
             /\ src' = Append(src, node.kind)

\* lib.rs 153-161: a call; its callee is matched before the argument loop
EnterCall(node, ev) ==
    LET id == CalleeIdentifier(node.callee) IN
    IF id = None THEN Panic(ev @@ [panic |-> "InvalidCallTarget"])
    ELSE /\ stack' = << [k |-> "call", name |-> id.some, left |-> node.nargs,
                         args |-> << >>, order |-> << >>, marks |-> << >>] >>
                      \o Tail(stack)
         /\ budget' = budget - node.nargs
         /\ last' = ev
         /\ UNCHANGED << pc, args, mod, called, drv >>
         /\ src' = Append(src, node.kind)

\* lib.rs 108-223: compile_expression matches on its expression
CompileExpression ==
    /\ pc = "lower" /\ stack # << >> /\ Head(stack).k = "expr"
    /\ \E node \in ExpressionNodes(budget) :
         LET arm == ExpressionArm(node.kind)
             ev == [op |-> "compile_expression", node |-> node]
         IN
         CASE arm = "literal" -> LowerLiteral(node, ev)
           [] arm = "call" -> EnterCall(node, ev)
           [] OTHER -> Panic(ev @@ [panic |-> "todo"])

\* history: how many functions, globals and instructions (of the block
\* the builder stands at) the module holds
Sizes == [nf |-> Len(funcs), ng |-> Len(globals), ni |-> Len(blocks[ip].insts)]

\* a variant of NextArgument: the arguments are taken from the right
NextArgument_reversed(f) == f.left

\* lib.rs 162: `for arg in call.args()`, the position in the source of the
\* argument the loop takes next, f being the pending call
NextArgument(f) == Len(f.args) + 1

\* lib.rs 162-164: the argument loop lowers the next argument; the value it
\* returns is unwrapped and pushed (compile_expression returns Some from
\* every arm that returns)
CallArgument ==
    /\ pc = "lower" /\ stack # << >> /\ Head(stack).k = "call"
    /\ Head(stack).left > 0
    /\ stack' = << [k |-> "expr"],
                   [Head(stack) EXCEPT !.left = @ - 1,
                                       !.order = Append(@, NextArgument(Head(stack))),
                                       !.marks = Append(@, Sizes)] >> \o Tail(stack)
    /\ last' = [op |-> "call_argument", index |-> NextArgument(Head(stack))]
    /\ UNCHANGED << pc, budget, args, mod, called, src, drv >>

\* lib.rs 166-204: the argument types, the lookup of the callee, its
\* declaration when the lookup returns null, and the call instruction
CallEmit ==
    /\ pc = "lower" /\ stack # << >> /\ Head(stack).k = "call"
    /\ Head(stack).left = 0
    /\ LET f == Head(stack)
           argTypes == [i \in 1..Len(f.args) |-> f.args[i].ty]
           h == LLVMGetNamedFunction(funcs, f.name)
           fnty == CallFunctionType(funcs, h, argTypes)
           r == ResolveCallee(funcs, globals, lastUnique, f.name, h, fnty)
           inst == [op |-> "call", fnty |-> fnty, callee |-> r.callee, args |-> f.args]
           v == [ty |-> fnty.ret, kind |-> "inst", x |-> << ip, Len(blocks[ip].insts) + 1 >>]
       IN  /\ funcs' = r.funcs
           /\ lastUnique' = r.lu
           /\ blocks' = Emit(blocks, ip, inst)
           /\ called' = called \cup {<< f.name, r.callee >>}
           /\ src' = src
           /\ stack' = Deliver(Tail(stack), v)
           /\ last' = [op |-> "return", fn |-> "compile_expression",
                       node |-> [kind |-> "Call", callee |-> f.name, nargs |-> Len(f.args)],
                       found |-> h, value |-> v,
                       order |-> f.order, marks |-> Append(f.marks, Sizes)]
    /\ UNCHANGED << pc, budget, args, globals, ip, drv >>

\* ------------------------------------------------- the rest of the pipeline
\* what LLVMVerifyModule checks of the module: every block ends in its only
\* terminator, a conditional branch tests an i1; a call whose function type
\* differs from its callee's is rejected by the LLVM releases with typed
\* pointers and accepted by those with opaque pointers
WellFormedBlock(b) ==
    /\ b.insts # << >>
    /\ \A i \in DOMAIN b.insts : IsTerminator(b.insts[i]) <=> i = Len(b.insts)
    /\ \A i \in DOMAIN b.insts : b.insts[i].op = "condbr" => b.insts[i].cond.ty = "i1"

SignatureMismatch(fs, inst) ==
    /\ inst.op = "call"
    /\ \/ inst.fnty.params # fs[inst.callee].params
       \/ inst.fnty.ret # fs[inst.callee].ret

VerifierVerdicts(fs, bs) ==
    IF \E b \in DOMAIN bs : ~WellFormedBlock(bs[b]) THEN {"failed"}
    ELSE IF \E b \in DOMAIN bs : \E i \in DOMAIN bs[b].insts :
                SignatureMismatch(fs, bs[b].insts[i])
         THEN {"ok", "failed"}
         ELSE {"ok"}

\* main.rs 95-99 and 120-124: the paths of the object file and of the linker
ObjectPath(a) ==
    IF a.output_file = None THEN SetExtension(InputFile, "o") ELSE a.output_file

LinkerPath(a) ==
    IF a.output_file = None THEN SetExtension(InputFile, "out") ELSE a.output_file

\* main returns: the code generator goes out of scope
Return(result, ev) ==
    /\ pc' = result
    /\ last' = ev
    /\ released' = released \o DropLLVMContext

\* main.rs 47: LLVMBuildRetVoid at the builder's position
EmitRetVoid ==
    /\ pc = "ret"
    /\ blocks' = BuildRetVoid(blocks, ip)
    /\ pc' = "verify"
    /\ last' = [op |-> "ret_void"]
    /\ UNCHANGED << stack, budget, args, funcs, globals, lastUnique, ip, called, src, drv >>

\* a variant of AfterVerify: a module the verifier rejects ends main
AfterVerify_checked(v) == IF v = "ok" THEN "target" ELSE "Err"

\* main.rs 56-60: where main goes on the verifier's verdict (the value
\* LLVMVerifyModule returns is not bound)
AfterVerify(v) == "target"

\* main.rs 55-60: the verifier prints its message; its result is dropped
VerifyModule ==
    /\ pc = "verify"
    /\ \E v \in VerifierVerdicts(funcs, blocks) :
         /\ verified' = v
         /\ IF AfterVerify(v) = "target"
            THEN /\ pc' = "target"
                 /\ last' = [op |-> "verify"]
                 /\ UNCHANGED released
            ELSE Return("Err", [op |-> "verify", error |-> "Module verification failed"])
    /\ UNCHANGED << stack, budget, args, mod, called, src, tm, object, linked >>

\* main.rs 62-93: the target of the triple, then the target machine
ResolveTarget ==
    /\ pc = "target"
    /\ \E ok \in BOOLEAN :
         IF ok
         THEN /\ pc' = "emit"
              /\ tm' = "live"
              /\ last' = [op |-> "target"]
              /\ UNCHANGED released
         ELSE /\ Return("Err", [op |-> "target", error |-> "Failed to get target from triple"])
              /\ UNCHANGED tm
    /\ UNCHANGED << stack, budget, args, mod, called, src, verified, object, linked >>

\* a variant of AfterEmit: the result of the emission is not tested
AfterEmit_ignored(ok) == "link"

\* main.rs 113-115: where main goes on the result of the emission
AfterEmit(ok) == IF ok THEN "link" ELSE "Err"

\* main.rs 95-117: the object file, at the path that --output-file gives;
\* the target machine is disposed only when the emission succeeded
EmitObject ==
    /\ pc = "emit"
    /\ \E of \in OutputFileArgs : args' = [args EXCEPT !.output_file = of]
    /\ \E ok \in BOOLEAN :
         IF AfterEmit(ok) = "link"
         THEN /\ pc' = "link"
              /\ object' = IF ok THEN ObjectPath(args') ELSE object
              /\ tm' = "disposed"
              /\ last' = [op |-> "emit"]
              /\ UNCHANGED released
         ELSE /\ Return("Err", [op |-> "emit", error |-> "Failed to emit object file"])
              /\ UNCHANGED << object, tm >>
    /\ UNCHANGED << stack, budget, mod, called, src, verified, linked >>

\* main.rs 119-138: the linker, when --linker gives one
Link ==
    /\ pc = "link"
    /\ \E lk \in LinkerArgs : args' = [args EXCEPT !.linker = lk]
    /\ IF args'.linker = None
       THEN /\ Return("Ok", [op |-> "link", ran |-> FALSE])
            /\ UNCHANGED linked
       ELSE /\ linked' = [program |-> args'.linker.some, input |-> LinkerPath(args),
                          output |-> LinkerPath(args)]
            /\ \E outcome \in {"success", "failure", "not run"} :
                 CASE outcome = "success" -> Return("Ok", [op |-> "link", ran |-> TRUE])
                   [] outcome = "failure" ->
                        Return("Err", [op |-> "link", error |-> "Failed to link object file"])
                   [] OTHER -> Return("panic", [op |-> "link", panic |-> "expect"])
    /\ UNCHANGED << stack, budget, mod, called, src, tm, verified, object >>

\* the lowering: main.rs 40-47, from the parse to the void return
Lower ==
    \/ ParseModule
    \/ CompileModuleItem
    \/ ItemsDone
    \/ CompileStatement
    \/ BlockItem
    \/ BlockReturn
    \/ WhileAfterCondition
    \/ WhileAfterBody
    \/ CompileExpression
    \/ CallArgument
    \/ CallEmit
    \/ EmitRetVoid

\* the whole of main
Next ==
    \/ Lower
    \/ VerifyModule
    \/ ResolveTarget
    \/ EmitObject
    \/ Link

LowerSpec == Init /\ [][Lower]_vars

Spec == Init /\ [][Next]_vars

\* ================================================================ claims
\* a block that holds a terminator
Terminated(bs, b) == \E i \in DOMAIN bs[b].insts : IsTerminator(bs[b].insts[i])

\* the terminator of a block: its last instruction, when that is a terminator
HasTerminatorLast(b) ==
    /\ blocks[b].insts # << >>
    /\ IsTerminator(blocks[b].insts[Len(blocks[b].insts)])

LastInst(b) == blocks[b].insts[Len(blocks[b].insts)]

\* the latest step was the return of a lowered while-loop
WhileReturned ==
    /\ last.op = "return"
    /\ last.node.kind = "WhileLoop"

\* the blocks of the loop that has just returned, and their edges apart
\* from the back edge
LoopSkeleton(l) ==
    /\ l.cond = l.nb + 1 /\ l.body = l.nb + 2 /\ l.end = l.nb + 3
    /\ Len(blocks) >= l.nb + 3
    /\ blocks[l.cond].label = "condition"
    /\ blocks[l.body].label = "body"
    /\ blocks[l.end].label = "end"
    /\ HasTerminatorLast(l.pre)
    /\ LastInst(l.pre) = [op |-> "br", dest |-> l.cond]
    /\ HasTerminatorLast(l.cond)
    /\ LastInst(l.cond).op = "condbr"
    /\ LastInst(l.cond).then = l.body
    /\ LastInst(l.cond).else = l.end
    /\ ip = l.end
    /\ ~Terminated(blocks, l.end)

\* C1, as stated: a lowered while-loop adds exactly three blocks condition,
\* body, end in that order, with the edges pre -> condition, condition ->
\* body (true), condition -> end (false) and body -> condition; afterwards
\* the insertion point is end, and end has no terminator.
C1_AsStated ==
    WhileReturned =>
        /\ LoopSkeleton(last.loop)
        /\ Len(blocks) = last.loop.nb + 3
        /\ HasTerminatorLast(last.loop.body)
        /\ LastInst(last.loop.body) = [op |-> "br", dest |-> last.loop.cond]

\* C1, amended: a lowered while-loop adds its three blocks condition, body,
\* end in that order ahead of the blocks of the loops nested in its body
\* (three blocks for each of those, none when there is none), with the edges
\* pre -> condition, condition -> body (true), condition -> end (false), and
\* the back edge to condition from the block the insertion point stands at
\* when the body has been lowered, which is body exactly when the body holds
\* no while-loop; afterwards the insertion point is end, and end has no
\* terminator.
C1_WhileLoopBlocks ==
    WhileReturned =>
        /\ LoopSkeleton(last.loop)
        /\ (Len(blocks) - last.loop.nb) % 3 = 0
        /\ HasTerminatorLast(last.from)
        /\ LastInst(last.from) = [op |-> "br", dest |-> last.loop.cond]
        /\ (last.from = last.loop.body) <=> (Len(blocks) = last.loop.nb + 3)

\* a loop whose body holds a loop has returned
C1_Witness ==
    /\ WhileReturned
    /\ last.from # last.loop.body
    /\ Len(blocks) = last.loop.nb + 6

\* the void return of main.rs 47 has been emitted
RetVoidEmitted ==
    \/ pc \in {"verify", "target", "emit", "link", "Ok", "Err"}
    \/ pc = "panic" /\ last.op = "link"

\* C2: no instruction is ever appended to a block that has a terminator, and
\* once the items are lowered and the void return is emitted every block of
\* the entry function holds exactly one terminator, its last instruction.
C2_BlocksTerminated ==
    /\ \A b \in DOMAIN blocks : \A i \in DOMAIN blocks[b].insts :
           IsTerminator(blocks[b].insts[i]) => i = Len(blocks[b].insts)
    /\ RetVoidEmitted => \A b \in DOMAIN blocks : HasTerminatorLast(b)

\* the void return closes a function with two loops
C2_Witness ==
    /\ pc = "verify"
    /\ Len(blocks) = 7
    /\ \E b \in DOMAIN blocks : LastInst(b).op = "ret"

\* the blocks a block's branches lead to
Successors(bs, b) ==
    UNION { IF bs[b].insts[i].op = "br" THEN {bs[b].insts[i].dest}
            ELSE IF bs[b].insts[i].op = "condbr"
                 THEN {bs[b].insts[i].then, bs[b].insts[i].else}
            ELSE {} : i \in DOMAIN bs[b].insts }

\* the blocks that the branches reach from the blocks of S
RECURSIVE ReachFrom(_, _)
ReachFrom(bs, S) ==
    LET T == S \cup UNION {Successors(bs, b) : b \in S}
    IN  IF T = S THEN S ELSE ReachFrom(bs, T)

\* C3: after LLVMContext::new and whenever compile_statement or
\* compile_module_item has returned (at every point between two steps of the
\* lowering, at any depth), the insertion point is a block of the entry
\* function without terminator that the branches emitted so far reach from
\* the entry block.
C3_InsertionPoint ==
    pc \in {"parse", "lower", "ret"} =>
        /\ ip \in DOMAIN blocks
        /\ ~Terminated(blocks, ip)
        /\ ip \in ReachFrom(blocks, {EntryBlock})

\* a loop nested in another construct has returned
C3_Witness ==
    /\ pc = "lower"
    /\ WhileReturned
    /\ stack # << >>
    /\ ip # EntryBlock

\* the latest step was the return of a lowered call
CallReturned ==
    /\ last.op = "return"
    /\ last.node.kind = "Call"

\* C4, as stated: every callee name has one function that all its calls
\* target, and the functions declared besides the entry function are as
\* many as the callee names called.
C4_OneDeclarationPerName ==
    /\ \A p \in called : \A q \in called : p[1] = q[1] => p[2] = q[2]
    /\ Len(funcs) - 1 = Cardinality({p[1] : p \in called})

\* no two functions of the module bear the same name
UniqueFunctionNames ==
    \A i \in DOMAIN funcs : \A j \in DOMAIN funcs : funcs[i].name = funcs[j].name => i = j

\* a step leaves every declared function as it is
DeclarationsKept ==
    /\ Len(funcs') >= Len(funcs)
    /\ \A i \in DOMAIN funcs : funcs'[i] = funcs[i]

C6_AbsentCalleeDeclared ==
    (CallReturned /\ last.found = 0) =>
        /\ HasTerminatorLast(ip) = FALSE
        /\ blocks[ip].insts # << >>
        /\ LET inst == LastInst(ip)
               f == funcs[Len(funcs)]
           IN  /\ inst.op = "call"
               /\ inst.callee = Len(funcs)
               /\ last.value.x = << ip, Len(blocks[ip].insts) >>
               /\ f.name = Plain(last.node.callee)
               /\ f.params = [i \in 1..Len(inst.args) |-> inst.args[i].ty]
               /\ f.ret = "i32"
               /\ f.linkage = "external"

\* lines 166-204 are about to run for a callee that the lookup finds
CallOfPresentCallee ==
    /\ pc = "lower" /\ stack # << >>
    /\ Head(stack).k = "call"
    /\ Head(stack).left = 0
    /\ LLVMGetNamedFunction(funcs, Head(stack).name) # 0

\* C7: a call whose callee LLVMGetNamedFunction finds declares nothing and
\* emits one call that targets the function found, with a function type
\* built from the types of this call's arguments and i32; when those types
\* differ from the parameter types declared, the type of the call differs
\* from the type of its callee.
C7_PresentCalleeReused ==
    [][CallOfPresentCallee =>
         LET f == Head(stack)
             h == LLVMGetNamedFunction(funcs, f.name)
             types == [i \in 1..Len(f.args) |-> f.args[i].ty]
             n == Len(blocks'[ip].insts)
         IN  /\ funcs' = funcs
             /\ n = Len(blocks[ip].insts) + 1
             /\ blocks'[ip].insts[n].op = "call"
             /\ blocks'[ip].insts[n].callee = h
             /\ blocks'[ip].insts[n].args = f.args
             /\ blocks'[ip].insts[n].fnty = [params |-> types, ret |-> "i32"]
             /\ types # funcs[h].params => SignatureMismatch(funcs', blocks'[ip].insts[n])]_vars

\* a second call to a declared name, with other argument types
C7_Witness ==
    /\ CallReturned
    /\ last.found > RootFunction
    /\ LastInst(ip).fnty.params # funcs[last.found].params

\* the signed value of a two-limb (32 bit) constant
SignedValue(x) ==
    IF x[1] >= 32768 THEN -((65535 - x[1]) * 65536 + (65535 - x[2])) - 1
    ELSE x[1] * 65536 + x[2]

\* the latest step matched on a literal of a supported kind
SupportedLiteralMatched ==
    /\ last.op = "compile_expression"
    /\ last.node.kind = "Literal"
    /\ last.node.lit \in {"String", "Num", "Int", "Bool"}

\* C8, as stated: a string, number, integer or boolean literal lowers to one
\* value: a pointer to a global that holds the string's bytes, the double of
\* the number, the i32 whose signed value is the integer, the i1 that is 1
\* for true and 0 for false.
C8_LiteralValue ==
    SupportedLiteralMatched =>
        /\ pc # "panic"
        /\ "value" \in DOMAIN last
        /\ LET v == last.value
               n == last.node
           IN  CASE n.lit = "String" ->
                      /\ v.ty = "ptr" /\ v.kind = "global"
                      /\ globals[v.x[1]].bytes = Append(Utf8Bytes(n.str), 0)
                 [] n.lit = "Num" ->
                      v = [ty |-> "double", kind |-> "const", x |-> << n.num >>]
                 [] n.lit = "Int" ->
                      /\ v.ty = "i32" /\ v.kind = "const"
                      /\ SignedValue(v.x) = n.int
                 [] n.lit = "Bool" ->
                      v = [ty |-> "i1", kind |-> "const",
                           x |-> << IF n.bool THEN 1 ELSE 0 >>]

\* the latest step matched on a node that has no lowering
UnsupportedMatched ==
    \/ /\ last.op = "compile_module_item"
       /\ last.node.kind # "Statement"
    \/ /\ last.op = "block_item"
       /\ last.node.kind # "Statement"
    \/ /\ last.op = "compile_statement"
       /\ last.node.kind \notin {"Block", "Expression", "WhileLoop"}
    \/ /\ last.op = "compile_expression"
       /\ \/ last.node.kind \notin {"Literal", "Call"}
          \/ /\ last.node.kind = "Literal"
             /\ last.node.lit \notin {"String", "Num", "Int", "Bool"}

\* nothing of main.rs 47-135 has happened
NoLaterStep ==
    /\ \A b \in DOMAIN blocks : \A i \in DOMAIN blocks[b].insts :
           blocks[b].insts[i].op # "ret"
    /\ verified = "no"
    /\ tm = "none"
    /\ object = None
    /\ linked = None

\* C9: a step that matches on a node without lowering, at whatever depth,
\* ends main in a panic and adds nothing to the module; no step follows a
\* panic, so that no void return is emitted, nothing is verified, no object
\* file is written and no linker runs.
C9_UnsupportedAborts ==
    [][/\ pc # "panic"
       /\ UnsupportedMatched' =>
            /\ pc' = "panic"
            /\ UNCHANGED << funcs, globals, lastUnique, blocks, ip >>
            /\ NoLaterStep']_vars

\* an unsupported node met inside a loop, after a call was lowered
C9_Witness ==
    /\ pc = "panic"
    /\ UnsupportedMatched
    /\ Len(stack) >= 2
    /\ Len(blocks) > 1
    /\ called # {}

\* C10: the step that matches on a call whose callee is not an identifier
\* ends main in a panic while the call is still the innermost pending
\* lowering: none of its arguments is lowered, and the functions, the
\* globals and the instructions of the module are those from before.
C10_InvalidCallTarget ==
    [][(/\ last'.op = "compile_expression"
        /\ last'.node.kind = "Call"
        /\ last'.node.callee \notin Names) =>
           /\ pc' = "panic"
           /\ last'.panic = "InvalidCallTarget"
           /\ stack' = stack
           /\ Head(stack).k = "expr"
           /\ UNCHANGED << funcs, globals, lastUnique, blocks, ip >>]_vars

\* such a call, with arguments, met after a function was declared
C10_Witness ==
    /\ pc = "panic"
    /\ "panic" \in DOMAIN last
    /\ last.panic = "InvalidCallTarget"
    /\ last.node.nargs >= 1
    /\ Len(funcs) > 1

\* the pipeline steps of main in their order
Rank(p) ==
    CASE p = "parse" -> 1 [] p = "lower" -> 2 [] p = "ret" -> 3
      [] p = "verify" -> 4 [] p = "target" -> 5 [] p = "emit" -> 6
      [] p = "link" -> 7 [] OTHER -> 8

\* the void returns of the entry function
RetVoids ==
    UNION {{<< b, i >> : i \in {j \in DOMAIN blocks[b].insts :
                                    blocks[b].insts[j].op = "ret"}} :
           b \in DOMAIN blocks}

\* one step of main, as the pipeline orders them
PipelineStep ==
    /\ pc \notin {"Ok", "Err", "panic"}
    /\ \/ pc' = pc /\ pc = "lower"
       \/ Rank(pc') = Rank(pc) + 1 /\ pc' # "Ok"
       \/ pc' \in {"Err", "panic"}
       \/ pc' = "Ok" /\ pc = "link"
    /\ pc = "parse" => mod' = mod
    /\ blocks' # blocks /\ pc # "lower" =>
          /\ pc = "ret" /\ stack = << >>
          /\ blocks' = Emit(blocks, ip, [op |-> "ret"])
    /\ pc = "ret" => pc' = "verify" /\ blocks' # blocks
    /\ verified' # verified => pc = "verify"
    /\ tm' # tm => \/ pc = "target" /\ tm' = "live"
                   \/ pc = "emit" /\ tm' = "disposed"
    /\ object' # object => pc = "emit" /\ pc' = "link" /\ tm = "live"
    /\ pc = "emit" /\ pc' = "link" => object' # None
    /\ linked' # linked =>
          /\ pc = "link"
          /\ args'.linker # None
          /\ object # None
    /\ pc = "link" /\ args'.linker # None => linked' # None

\* C11: main runs parse, the lowering of the items, the one void return at
\* the builder's position, the verifier, the target, the object file and
\* the linker in this order, each step only when no earlier step ended main:
\* the void return comes after the last item, no object file is written
\* once the parse, the lowering or the target has failed, and the linker
\* runs only when --linker is given and the object file was written.
C11_PipelineOrder ==
    /\ [](Cardinality(RetVoids) <= 1)
    /\ [](Cardinality(RetVoids) = 1 <=> Rank(pc) >= 4 /\ RetVoidEmitted)
    /\ [][PipelineStep]_vars

\* main has run through to the linker for a source with a loop
C11_Witness ==
    /\ pc = "Ok"
    /\ linked # None
    /\ Len(blocks) > 1
    /\ Cardinality(RetVoids) = 1

\* the steps after the verifier can end either way
LaterStepsOpen ==
    /\ pc = "target" =>
          /\ ENABLED (ResolveTarget /\ pc' = "emit")
          /\ ENABLED (ResolveTarget /\ pc' = "Err")
    /\ pc = "emit" =>
          /\ ENABLED (EmitObject /\ pc' = "link" /\ object' # None)
          /\ ENABLED (EmitObject /\ pc' = "Err")
    /\ pc = "link" =>
          /\ ENABLED (Link /\ pc' = "Ok" /\ linked' = None)
          /\ ENABLED (Link /\ pc' = "Ok" /\ linked' # None)
          /\ ENABLED (Link /\ pc' = "Err")

\* the verifier's step goes on to the target, and no later step touches
\* the verdict
VerdictDropped ==
    /\ pc = "verify" => (pc' = "target" /\ mod' = mod /\ released' = released)
    /\ pc \in {"target", "emit", "link"} => (verified' = verified)

\* C12: the verifier's step always hands over to the target resolution,
\* whether it accepts or rejects the module, and leaves the module as it
\* is; with either verdict the target resolution, the object emission and
\* the linker are attempted and each can succeed or fail, so that main can
\* end in Ok as well as in Err.
C12_VerifierNeverAborts ==
    /\ [][VerdictDropped]_vars
    /\ [](verified # "no" => LaterStepsOpen)

\* main ends in Ok, with its object file written, for a module the verifier
\* rejected
C12_Witness ==
    /\ pc = "Ok"
    /\ verified = "failed"
    /\ object # None

\* C13, as stated: when main has ended (Ok, Err or panic) the builder, the
\* module and the context have been released once each and in this order,
\* and the target machine, if one was created, has been released; before
\* that nothing is released twice.
C13_HandlesReleased ==
    /\ released \in {<< >>, << "builder", "module", "context" >>}
    /\ pc \in {"Ok", "Err", "panic"} =>
          /\ released = << "builder", "module", "context" >>
          /\ tm \in {"none", "disposed"}

\* C14, as stated: a linker that is invoked is given the path the object
\* file was written to as its input, and the same path after -o.
C14_LinkerInput ==
    linked # None =>
        /\ linked.input = object
        /\ linked.output = linked.input

\* the kinds of src that are statements
StatementKinds == {"Block", "Expression", "WhileLoop"} \cup UnsupportedStatements

\* the positions of src that hold one of the kinds K
Positions(K) == {i \in DOMAIN src : src[i] \in K}

\* the items are lowered, and the source was one while-loop whose body is
\* one call statement
LoopWithCallBodyLowered ==
    /\ pc \in {"ret", "verify"}
    /\ Len(src) >= 5
    /\ Positions({"Item"}) = {1}
    /\ src[2] = "WhileLoop"
    /\ \E k \in 4..(Len(src) - 1) :
          /\ Positions(StatementKinds) = {2, k}
          /\ src[k] = "Expression"
          /\ src[k + 1] = "Call"

\* the edges of the one loop of such a source
LoopEdges ==
    /\ blocks[1].label = "entry"
    /\ blocks[2].label = "condition"
    /\ blocks[3].label = "body"
    /\ blocks[4].label = "end"
    /\ Successors(blocks, 1) = {2}
    /\ HasTerminatorLast(2)
    /\ LastInst(2).op = "condbr" /\ LastInst(2).then = 3 /\ LastInst(2).else = 4
    /\ Successors(blocks, 2) = {3, 4}
    /\ Successors(blocks, 3) = {2}
    /\ \E i \in DOMAIN blocks[3].insts : blocks[3].insts[i].op = "call"

\* C15, as stated: a source that is one while-loop whose body is one call
\* statement lowers to five blocks of the entry function, with the edges
\* entry -> condition, condition -> body (true), condition -> end (false)
\* and body -> condition.
C15_AsStated ==
    LoopWithCallBodyLowered => Len(blocks) = 5 /\ LoopEdges

\* C15, amended: such a source lowers to four blocks of the entry function,
\* entry, condition, body and end in this order, with the edges entry ->
\* condition, condition -> body (true), condition -> end (false) and body
\* -> condition, the call standing in body.
C15_LoopWithCallBody ==
    LoopWithCallBodyLowered => Len(blocks) = 4 /\ LoopEdges

\* such a source is lowered and closed by the void return
C15_Witness ==
    /\ LoopWithCallBodyLowered
    /\ pc = "verify"
    /\ src = << "Item", "WhileLoop", "Literal", "Expression", "Call" >>

\* the call instruction that the call just returned emitted
CallInst == blocks[last.value.x[1]].insts[last.value.x[2]]

\* the i-th operand was produced while the i-th argument was lowered, that
\* is between the marks i and i + 1
OperandFromArgument(i) ==
    LET v == CallInst.args[i]
        lo == last.marks[i]
        hi == last.marks[i + 1]
    IN  /\ lo.nf <= hi.nf /\ lo.ng <= hi.ng /\ lo.ni <= hi.ni
        /\ v.kind = "global" => (lo.ng < v.x[1] /\ v.x[1] <= hi.ng)
        /\ v.kind = "inst" =>
              /\ v.x[1] = last.value.x[1]
              /\ lo.ni < v.x[2] /\ v.x[2] <= hi.ni
              /\ blocks[v.x[1]].insts[v.x[2]].callee <= hi.nf
        /\ v.kind = "const" => lo = hi

\* C16: the arguments of a call are lowered in their order in the source,
\* each producing its globals, declarations and instructions after those of
\* the arguments before it; the i-th operand of the call is the value of
\* the i-th argument; the callee is looked up in the module as the
\* arguments left it, and its declaration (if any) and the call
\* instruction come after everything the arguments produced.
C16_ArgumentsInOrder ==
    CallReturned =>
        LET n == last.node.nargs
            end == last.marks[n + 1]
        IN  /\ last.order = [i \in 1..n |-> i]
            /\ Len(CallInst.args) = n
            /\ \A i \in 1..n : OperandFromArgument(i)
            /\ last.found = LLVMGetNamedFunction(SubSeq(funcs, 1, end.nf), last.node.callee)
            /\ last.value.x[2] = end.ni + 1
            /\ last.found = 0 => (CallInst.callee = end.nf + 1 /\ Len(funcs) = end.nf + 1)
            /\ last.found # 0 => Len(funcs) = end.nf

\* a call of two arguments that are calls, whose callee the second argument
\* declared
C16_Witness ==
    /\ CallReturned
    /\ last.node.nargs = 2
    /\ CallInst.args[1].kind = "inst"
    /\ CallInst.args[2].kind = "inst"
    /\ CallInst.args[1].x[2] < CallInst.args[2].x[2]
    /\ last.found > last.marks[2].nf

\* the latest step was the return of a lowered block
BlockReturned ==
    /\ last.op = "return"
    /\ last.node.kind = "Block"

\* the block that has just returned holds no while-loop, at any depth
NoLoopInside == \A i \in DOMAIN src : i > last.entry.at => src[i] # "WhileLoop"

\* C17: a lowered block has taken its items in their order in the source
\* and returns None; when it holds no while-loop at any depth the entry
\* function has the blocks it had when the lowering of the block began, and
\* the builder stands at the block it stood at.
C17_BlockFrame ==
    BlockReturned =>
        /\ last.order = [i \in 1..last.node.nitems |-> i]
        /\ last.value = None
        /\ NoLoopInside =>
              /\ Len(blocks) = last.entry.nb
              /\ ip = last.entry.ip

\* a block of two call statements has returned
C17_Witness ==
    /\ BlockReturned
    /\ last.node.nitems = 2
    /\ NoLoopInside
    /\ Len(blocks[ip].insts) = 2
    /\ src[Len(src)] = "Call"

\* the call instructions of the entry function
CallInsts ==
    UNION {{blocks[b].insts[i] : i \in {j \in DOMAIN blocks[b].insts :
                                          blocks[b].insts[j].op = "call"}} :
           b \in DOMAIN blocks}

\* C18, as stated: no call instruction targets the entry function; every
\* call targets a function declared at a call site, with external linkage
\* and the i32 return type of the calls.
C18_CallsTargetExternals ==
    \A c \in CallInsts :
        /\ c.callee # RootFunction
        /\ c.callee \in DOMAIN funcs
        /\ funcs[c.callee].linkage = "external"
        /\ funcs[c.callee].ret = c.fnty.ret

\* C19, as stated: the value that a conditional branch of the entry
\* function tests, the lowered condition of a while-loop, has the type i1.
C19_ConditionIsI1 ==
    \A b \in DOMAIN blocks : \A i \in DOMAIN blocks[b].insts :
        blocks[b].insts[i].op = "condbr" => blocks[b].insts[i].cond.ty = "i1"

\* the loop that has just returned holds a while-loop in its body
LoopInside == \E i \in DOMAIN src : i > last.loop.at /\ src[i] = "WhileLoop"

\* C20: the entry function has one block and three more for every
\* while-loop of the source; when the body of a lowered loop holds a
\* while-loop, the back branch to the loop's condition block stands in the
\* block the builder stood at when the body was lowered, which is the end
\* block of a loop of the body and not the loop's body block, and the
\* loop's body block ends in the branch to the condition block of a loop of
\* the body.
C20_NestedLoops ==
    /\ Len(blocks) = 1 + 3 * Cardinality(Positions({"WhileLoop"}))
    /\ (WhileReturned /\ LoopInside) =>
          LET l == last.loop IN
          /\ last.from # l.body
          /\ last.from > l.end
          /\ blocks[last.from].label = "end"
          /\ HasTerminatorLast(last.from)
          /\ LastInst(last.from) = [op |-> "br", dest |-> l.cond]
          /\ HasTerminatorLast(l.body)
          /\ LastInst(l.body).op = "br"
          /\ LastInst(l.body).dest > l.end
          /\ blocks[LastInst(l.body).dest].label = "condition"
          /\ \A i \in DOMAIN blocks[l.body].insts :
                 blocks[l.body].insts[i] # [op |-> "br", dest |-> l.cond]

\* a loop has returned whose body held a loop: seven blocks for two loops
C20_Witness ==
    /\ WhileReturned
    /\ LoopInside
    /\ Len(blocks) = 7
    /\ last.from = 7

====
